---- MODULE Spec2Model ----
(***************************************************************************)
(* Model of load_tester.py: class LoadTester.                              *)
(*                                                                         *)
(* run_test creates num_users user_session coroutines and awaits them with *)
(* asyncio.gather; every user_session loops over make_request until its    *)
(* end_time.  The event loop is single threaded: a coroutine runs without  *)
(* interruption from one await to the next, so every action below is the   *)
(* code between two consecutive suspension points of one coroutine.  The   *)
(* suspension points are session.get (line 28), response.json (line 30),   *)
(* asyncio.sleep (line 66) and asyncio.gather (line 101).                  *)
(*                                                                         *)
(* time.time() is the variable now, advanced by Tick; the network (status, *)
(* body, timeout, transport error) is chosen by the environment.           *)
(***************************************************************************)
EXTENDS Integers, Sequences, FiniteSets, TLC

\* ---- bounds of the model -------------------------------------------------
MaxUsers == 2
MaxDuration == 1
MaxTime == 1
MaxRequests == 2
\* Requests per user in the runs that follow the endpoint rotation.
MaxRotation == 5
\* Latency samples of the runs whose percentiles are examined.
MaxSamples == 5

\* ---- values of the environment -------------------------------------------
UserIds == 0..(MaxUsers - 1)

\* HTTP statuses a response can carry: 200 and one other.
StatusOK == 200
Statuses == {StatusOK, 500}

\* Values of data['server_id'].
ServerIds == {"server-1", "server-2"}

\* What response.json() can return: a JSON object with or without the key
\* server_id, a list (not holding the string 'server_id'), a number, null.
JsonBodies ==
    {[kind |-> "object", server_id |-> s] : s \in ServerIds \cup {"absent"}}
        \cup {[kind |-> k, server_id |-> "absent"] : k \in {"list", "number", "null"}}

\* Exceptions: asyncio.TimeoutError, and str(e) of the others.
TimeoutError == "asyncio.TimeoutError"
ConnectError == "Cannot connect to host"
DecodeError == "Attempt to decode JSON with unexpected mimetype"
TypeErrorText == "argument of this type is not iterable"
GetErrors == {TimeoutError, ConnectError}
JsonErrors == {TimeoutError, DecodeError}

endpoints == <<"/api/products", "/api/orders", "/api/users", "/">>

VARIABLES
    num_users,      \* self.num_users
    duration,       \* self.duration
    now,            \* time.time()
    results,        \* self.results
    main_pc,        \* position of run_test
    start_time,     \* run_test's start_time
    total_time,     \* run_test's total_time
    pc,             \* position of each user_session
    end_time,       \* user_session's end_time
    request_count,  \* user_session's request_count
    endpoint,       \* user_session's endpoint
    req_start,      \* make_request's start_time
    response,       \* make_request's response.status (0: none)
    response_time,  \* make_request's response_time
    summary,        \* print_results' p50, p95, p99
    history         \* observer: how many make_request calls ended in each way

vars == <<num_users, duration, now, results, main_pc, start_time, total_time,
          pc, end_time, request_count, endpoint, req_start, response,
          response_time, summary, history>>

coordVars == <<main_pc, start_time, total_time, summary>>
configVars == <<num_users, duration>>

\* ---- the ways a make_request call can end ---------------------------------
Outcomes ==
    {"ok_with_id",        \* 200, JSON object carrying server_id
     "ok_without_id",     \* 200, JSON object or list without server_id
     "ok_not_container",  \* 200, JSON number or null
     "non_200",           \* status /= 200, body parsed
     "json_failed_200",   \* 200, the body is not JSON
     "json_failed_non_200", \* status /= 200, the body is not JSON
     "body_timeout",      \* response.json() timed out
     "get_timeout",       \* session.get timed out
     "get_error"}         \* session.get raised a transport error

RECURSIVE SumOver(_, _)
SumOver(f, S) ==
    IF S = {} THEN 0
    ELSE LET x == CHOOSE y \in S : TRUE IN f[x] + SumOver(f, S \ {x})

\* ---- LoadTester.__init__ ---------------------------------------------------
InitialResults ==
    [total_requests |-> 0,
     successful_requests |-> 0,
     failed_requests |-> 0,
     response_times |-> <<>>,
     server_distribution |-> [s \in ServerIds |-> 0],
     status_codes |-> [s \in Statuses |-> 0],
     errors |-> <<>>]

\* print_results has not printed the percentiles.
NoSummary == [shown |-> FALSE, p50 |-> 0, p95 |-> 0, p99 |-> 0]

Init ==
    /\ num_users \in (-1)..MaxUsers
    /\ duration \in (-1)..MaxDuration
    /\ now = 0
    /\ results = InitialResults
    /\ main_pc = "start"
    /\ start_time = 0
    /\ total_time = 0
    /\ pc = [u \in UserIds |-> "none"]
    /\ end_time = [u \in UserIds |-> 0]
    /\ request_count = [u \in UserIds |-> 0]
    /\ endpoint = [u \in UserIds |-> "none"]
    /\ req_start = [u \in UserIds |-> 0]
    /\ response = [u \in UserIds |-> 0]
    /\ response_time = [u \in UserIds |-> 0]
    /\ summary = NoSummary
    /\ history = [o \in Outcomes |-> 0]

\* ---- time ------------------------------------------------------------------
Tick ==
    /\ now < MaxTime
    /\ now' = now + 1
    /\ UNCHANGED <<configVars, results, coordVars, pc, end_time, request_count,
                   endpoint, req_start, response, response_time, history>>

\* ---- LoadTester.make_request ----------------------------------------------
\* Lines 45-52 as a single clause that appends str(e) for every exception.
HandleExceptionSingleClause(r, e) ==
    [r EXCEPT !.failed_requests = @ + 1,
              !.errors = Append(@, e)]

\* Lines 45-52: both except clauses.
HandleException(r, e) ==
    [r EXCEPT !.failed_requests = @ + 1,
              !.errors = Append(@, IF e = TimeoutError THEN "Timeout" ELSE e)]

\* Line 38, 'server_id' in data: raises TypeError when data is a number or
\* null, is False for a list or an object without the key.
MembershipRaises(data) == data.kind \in {"number", "null"}
HasServerId(data) == data.kind = "object" /\ data.server_id /= "absent"

\* Bookkeeping with line 39 written as an assignment of 1, not an increment.
BookkeepingAssignsOne(r, status, rt, data) ==
    LET r1 == [r EXCEPT !.total_requests = @ + 1,
                        !.response_times = Append(@, rt),
                        !.status_codes[status] = @ + 1]
        r2 == [r1 EXCEPT !.successful_requests = @ + 1]
    IN  IF status = StatusOK
        THEN IF data.kind \in {"number", "null"}
             THEN [r2 EXCEPT !.failed_requests = @ + 1,
                             !.errors = Append(@, TypeErrorText)]
             ELSE IF data.kind = "object" /\ data.server_id /= "absent"
                  THEN [r2 EXCEPT !.server_distribution[data.server_id] = 1]
                  ELSE r2
        ELSE [r1 EXCEPT !.failed_requests = @ + 1]

\* Lines 32-34 with the status tally moved under the test of line 36.
RecordResponseTallyOnlyOK(r, status, rt) ==
    [r EXCEPT !.total_requests = @ + 1,
              !.response_times = Append(@, rt),
              !.status_codes[status] = IF status = StatusOK THEN @ + 1 ELSE @]

\* Lines 32-34: the request is counted, its sample and its status recorded.
RecordResponse(r, status, rt) ==
    [r EXCEPT !.total_requests = @ + 1,
              !.response_times = Append(@, rt),
              !.status_codes[status] = @ + 1]

\* Lines 36-41 with lines 38-39 placed before the test of line 36.
ClassifyResponseAnyStatus(r, status, data) ==
    IF MembershipRaises(data)
    THEN HandleException(r, TypeErrorText)
    ELSE LET d == IF HasServerId(data)
                  THEN [r EXCEPT !.server_distribution[data.server_id] = @ + 1]
                  ELSE r
         IN  IF status = StatusOK
             THEN [d EXCEPT !.successful_requests = @ + 1]
             ELSE [d EXCEPT !.failed_requests = @ + 1]

\* Lines 36-41; a TypeError raised by line 38 is caught by line 49 after
\* line 37 ran.
ClassifyResponse(r, status, data) ==
    IF status = StatusOK
    THEN LET r2 == [r EXCEPT !.successful_requests = @ + 1]
         IN  IF MembershipRaises(data)
             THEN HandleException(r2, TypeErrorText)
             ELSE IF HasServerId(data)
                  THEN [r2 EXCEPT !.server_distribution[data.server_id] = @ + 1]
                  ELSE r2
    ELSE [r EXCEPT !.failed_requests = @ + 1]

\* Lines 32-43, run without suspension once response.json() has returned.
Bookkeeping(r, status, rt, data) ==
    ClassifyResponse(RecordResponse(r, status, rt), status, data)

\* How the call ended, for the history.
BodyOutcome(status, data) ==
    IF status /= StatusOK THEN "non_200"
    ELSE IF MembershipRaises(data) THEN "ok_not_container"
    ELSE IF HasServerId(data) THEN "ok_with_id"
    ELSE "ok_without_id"

\* CallEnds with line 49 catching only the client's errors: the TypeError of
\* line 38 leaves make_request and ends the user_session.
CallEndsOrPropagates(u, outcome) ==
    /\ request_count' = [request_count EXCEPT ![u] = @ + 1]
    /\ pc' = [pc EXCEPT ![u] = IF outcome = "ok_not_container" THEN "done"
                                                               ELSE "sleep"]
    /\ response' = [response EXCEPT ![u] = 0]
    /\ response_time' = [response_time EXCEPT ![u] = 0]
    /\ history' = [history EXCEPT ![outcome] = @ + 1]

\* make_request returns to user_session: lines 62-66, request_count += 1 and
\* the coroutine suspends in asyncio.sleep.
CallEnds(u, outcome) ==
    /\ request_count' = [request_count EXCEPT ![u] = @ + 1]
    /\ pc' = [pc EXCEPT ![u] = "sleep"]
    /\ response' = [response EXCEPT ![u] = 0]
    /\ response_time' = [response_time EXCEPT ![u] = 0]
    /\ history' = [history EXCEPT ![outcome] = @ + 1]

\* Lines 28-29: session.get delivers the status line and headers.
GetReturns(u, status) ==
    /\ pc[u] = "get"
    /\ response' = [response EXCEPT ![u] = status]
    /\ response_time' = [response_time EXCEPT ![u] = (now - req_start[u]) * 1000]
    /\ pc' = [pc EXCEPT ![u] = "json"]
    /\ UNCHANGED <<configVars, now, results, coordVars, end_time, request_count,
                   endpoint, req_start, history>>

\* Line 28 raises: timeout or transport error, no response.
GetRaises(u, e) ==
    /\ pc[u] = "get"
    /\ results' = HandleException(results, e)
    /\ CallEnds(u, IF e = TimeoutError THEN "get_timeout" ELSE "get_error")
    /\ UNCHANGED <<configVars, now, coordVars, end_time, endpoint, req_start>>

\* Line 30 returns the parsed body; lines 32-43 follow.
JsonReturns(u, data) ==
    /\ pc[u] = "json"
    /\ results' = Bookkeeping(results, response[u], response_time[u], data)
    /\ CallEnds(u, BodyOutcome(response[u], data))
    /\ UNCHANGED <<configVars, now, coordVars, end_time, endpoint, req_start>>

\* Line 30 raises: the body is not JSON, or the read timed out.
JsonRaises(u, e) ==
    /\ pc[u] = "json"
    /\ results' = HandleException(results, e)
    /\ CallEnds(u, IF e = TimeoutError THEN "body_timeout"
                   ELSE IF response[u] = StatusOK THEN "json_failed_200"
                   ELSE "json_failed_non_200")
    /\ UNCHANGED <<configVars, now, coordVars, end_time, endpoint, req_start>>

\* ---- LoadTester.user_session ------------------------------------------------
\* LoopTest with line 61 indexed by the shared total_requests.
LoopTestSharedCounter(u, et) ==
    IF now < et
    THEN /\ endpoint' = [endpoint EXCEPT
                            ![u] = endpoints[(results.total_requests % Len(endpoints)) + 1]]
         /\ req_start' = [req_start EXCEPT ![u] = now]
         /\ pc' = [pc EXCEPT ![u] = "get"]
    ELSE /\ pc' = [pc EXCEPT ![u] = "done"]
         /\ UNCHANGED <<endpoint, req_start>>

\* Lines 59-62: the loop test and, when it passes, the start of make_request
\* up to its first await.
LoopTest(u, et) ==
    IF now < et
    THEN /\ endpoint' = [endpoint EXCEPT
                            ![u] = endpoints[(request_count[u] % Len(endpoints)) + 1]]
         /\ req_start' = [req_start EXCEPT ![u] = now]
         /\ pc' = [pc EXCEPT ![u] = "get"]
    ELSE /\ pc' = [pc EXCEPT ![u] = "done"]
         /\ UNCHANGED <<endpoint, req_start>>

\* Lines 56-59: the task runs for the first time.
UserSessionStart(u) ==
    /\ pc[u] = "created"
    /\ end_time' = [end_time EXCEPT ![u] = now + duration]
    /\ LoopTest(u, now + duration)
    /\ UNCHANGED <<configVars, now, results, coordVars, request_count, response,
                   response_time, history>>

\* Line 66 returns; back to line 59.  A user that has made cap requests
\* sleeps until its end_time has passed.
SleepReturnsUpTo(u, cap) ==
    /\ pc[u] = "sleep"
    /\ request_count[u] < cap \/ ~(now < end_time[u])
    /\ LoopTest(u, end_time[u])
    /\ UNCHANGED <<configVars, now, results, coordVars, end_time, request_count,
                   response, response_time, history>>

SleepReturns(u) == SleepReturnsUpTo(u, MaxRequests)

\* ---- LoadTester.run_test ----------------------------------------------------
\* Lines 95-98: range(self.num_users).
Tasks == {u \in UserIds : u < num_users}

\* Lines 87-101: start_time, the session, the tasks; gather schedules them.
RunTest ==
    /\ main_pc = "start"
    /\ start_time' = now
    /\ pc' = [u \in UserIds |-> IF u \in Tasks THEN "created" ELSE "none"]
    /\ main_pc' = "gather"
    /\ UNCHANGED <<configVars, now, results, total_time, summary, end_time, request_count,
                   endpoint, req_start, response, response_time, history>>

\* gather replaced by a wait for the first task to finish.
SomeUserReturned == \E u \in {v \in UserIds : v < num_users} : pc[u] = "done"

\* gather given one awaitable more than the tasks of lines 95-98.
AllUsersReturnedOffByOne ==
    \A u \in UserIds : u <= num_users => pc[u] = "done"

\* Line 101: gather returns once every task has finished.
AllUsersReturned == \A u \in Tasks : pc[u] = "done"

\* ---- LoadTester.print_results -----------------------------------------------
\* sorted(): insertion into an ascending sequence.
RECURSIVE InsertSorted(_, _)
InsertSorted(x, s) ==
    IF s = <<>> THEN <<x>>
    ELSE IF x <= Head(s) THEN <<x>> \o s
    ELSE <<Head(s)>> \o InsertSorted(x, Tail(s))

\* Line 135 without the sort.
Unsorted(ts) == ts

\* Line 135: sorted(self.results['response_times']), a new list.
RECURSIVE Sorted(_)
Sorted(ts) ==
    IF ts = <<>> THEN <<>> ELSE InsertSorted(Head(ts), Sorted(Tail(ts)))

\* sorted_times[i], i counted from 0; -1 stands for IndexError.
At(s, i) == IF i + 1 \in DOMAIN s THEN s[i + 1] ELSE -1

\* Lines 136-138: len//2, int(len*0.95), int(len*0.99).  The float products
\* truncate to (len*95) div 100 and (len*99) div 100.
Percentiles(ts) ==
    LET s == Sorted(ts)
        n == Len(s)
    IN  [shown |-> TRUE,
         p50 |-> At(s, n \div 2),
         p95 |-> At(s, (n * 95) \div 100),
         p99 |-> At(s, (n * 99) \div 100)]

\* Line 118 raises ZeroDivisionError when total_requests is 0.
PrintRaises(r) == r.total_requests = 0

\* Lines 124-143: the percentiles are computed when there are samples.
Summary(r) ==
    IF PrintRaises(r) \/ r.response_times = <<>> THEN NoSummary
    ELSE Percentiles(r.response_times)

\* print_results with line 135 sorting the list in place.
PrintSortsInPlace(r) == [r EXCEPT !.response_times = Sorted(@)]

\* self.results after print_results: lines 108-185 only read it.
PrintResultsEffect(r) == r

\* Lines 103-106 and print_results.
GatherReturns ==
    /\ main_pc = "gather"
    /\ AllUsersReturned
    /\ total_time' = now - start_time
    /\ main_pc' = IF PrintRaises(results) THEN "raised" ELSE "reported"
    /\ summary' = Summary(results)
    /\ results' = PrintResultsEffect(results)
    /\ UNCHANGED <<configVars, now, start_time, pc, end_time,
                   request_count, endpoint, req_start, response, response_time,
                   history>>

Next ==
    \/ Tick
    \/ RunTest
    \/ GatherReturns
    \/ \E u \in UserIds : UserSessionStart(u)
    \/ \E u \in UserIds : SleepReturns(u)
    \/ \E u \in UserIds, s \in Statuses : GetReturns(u, s)
    \/ \E u \in UserIds, e \in GetErrors : GetRaises(u, e)
    \/ \E u \in UserIds, d \in JsonBodies : JsonReturns(u, d)
    \/ \E u \in UserIds, e \in JsonErrors : JsonRaises(u, e)

Spec == Init /\ [][Next]_vars

\* ---- runs long enough to go round the endpoints ------------------------------
\* Each user makes up to MaxRotation requests; a request is answered 200 with
\* a JSON object carrying server_id, or times out.
RotationBody == [kind |-> "object", server_id |-> "server-1"]

NextRotation ==
    \/ Tick
    \/ RunTest
    \/ GatherReturns
    \/ \E u \in UserIds : UserSessionStart(u)
    \/ \E u \in UserIds : SleepReturnsUpTo(u, MaxRotation)
    \/ \E u \in UserIds : GetReturns(u, StatusOK)
    \/ \E u \in UserIds : GetRaises(u, TimeoutError)
    \/ \E u \in UserIds : JsonReturns(u, RotationBody)

SpecRotation == Init /\ [][NextRotation]_vars

\* ---- finished runs with given latency samples --------------------------------
\* Latencies in ms.
SampleValues == {10, 20, 30, 40, 50}

RECURSIVE SeqsUpTo(_, _)
SeqsUpTo(S, n) ==
    IF n = 0 THEN {<<>>}
    ELSE LET shorter == SeqsUpTo(S, n - 1)
         IN  shorter \cup {Append(t, x) : t \in shorter, x \in S}

\* One user has returned after Len(ts) requests, all answered 200 with a JSON
\* object without server_id; run_test waits in gather.
InitSamples ==
    \E ts \in SeqsUpTo(SampleValues, MaxSamples) :
        /\ num_users = 1
        /\ duration = 1
        /\ now = 1
        /\ results = [InitialResults EXCEPT
                         !.total_requests = Len(ts),
                         !.successful_requests = Len(ts),
                         !.response_times = ts,
                         !.status_codes[StatusOK] = Len(ts)]
        /\ main_pc = "gather"
        /\ start_time = 0
        /\ total_time = 0
        /\ pc = [u \in UserIds |-> IF u = 0 THEN "done" ELSE "none"]
        /\ end_time = [u \in UserIds |-> IF u = 0 THEN 1 ELSE 0]
        /\ request_count = [u \in UserIds |-> IF u = 0 THEN Len(ts) ELSE 0]
        /\ endpoint = [u \in UserIds |->
                          IF u = 0 /\ Len(ts) > 0
                          THEN endpoints[((Len(ts) - 1) % Len(endpoints)) + 1]
                          ELSE "none"]
        /\ req_start = [u \in UserIds |-> 0]
        /\ response = [u \in UserIds |-> 0]
        /\ response_time = [u \in UserIds |-> 0]
        /\ summary = NoSummary
        /\ history = [o \in Outcomes |-> IF o = "ok_without_id" THEN Len(ts) ELSE 0]

SpecPercentiles == InitSamples /\ [][GatherReturns]_vars

\* ---- the run under fair scheduling --------------------------------------------
\* The clock does not stop while the end_time of a running user lies ahead.
TickLive ==
    /\ \/ now < MaxTime
       \/ \E u \in UserIds : pc[u] \in {"get", "json", "sleep"} /\ now < end_time[u]
    /\ now' = now + 1
    /\ UNCHANGED <<configVars, results, coordVars, pc, end_time, request_count,
                   endpoint, req_start, response, response_time, history>>

\* session.get ends within the timeout of line 28: with a response, or with
\* the TimeoutError when none came.
GetEnds(u) ==
    \/ \E s \in Statuses : GetReturns(u, s)
    \/ GetRaises(u, TimeoutError)

\* response.json() ends within the same timeout, with the body or the
\* TimeoutError.
JsonEnds(u) ==
    \/ \E d \in JsonBodies : JsonReturns(u, d)
    \/ JsonRaises(u, TimeoutError)

NextLive ==
    \/ TickLive
    \/ RunTest
    \/ GatherReturns
    \/ \E u \in UserIds : UserSessionStart(u)
    \/ \E u \in UserIds : SleepReturns(u)
    \/ \E u \in UserIds : GetEnds(u)
    \/ \E u \in UserIds : JsonEnds(u)

\* The next step of one user_session; its position enables one of the four.
UserStep(u) ==
    UserSessionStart(u) \/ SleepReturns(u) \/ GetEnds(u) \/ JsonEnds(u)

\* The event loop runs every task that is ready; time passes; every request
\* ends.
Fairness ==
    /\ WF_vars(TickLive)
    /\ WF_vars(RunTest)
    /\ WF_vars(GatherReturns)
    /\ \A u \in UserIds : WF_vars(UserStep(u))

SpecLive == Init /\ [][NextLive]_vars /\ Fairness

\* ---- quantities the properties speak of -----------------------------------
\* The make_request calls that have ended.
Completed == SumOver(request_count, UserIds)
\* No make_request call is in progress.
Quiescent == \A u \in UserIds : pc[u] \notin {"get", "json"}
\* run_test has passed gather and called print_results.
Reporting == main_pc \in {"reported", "raised"}
\* The run is over: every user_session task has returned.
RunOver == main_pc /= "start" /\ \A u \in UserIds : pc[u] \in {"none", "done"}
\* The failed calls that had received an HTTP status and did not time out.
HttpFailures ==
    history["non_200"] + history["json_failed_200"] + history["json_failed_non_200"]

\* C1: whenever no make_request call is in progress, successful_requests +
\* failed_requests equals total_requests.
C1_CountersSumToTotal ==
    Quiescent =>
        results.successful_requests + results.failed_requests = results.total_requests

\* C2: total_requests equals the number of make_request calls that have ended,
\* whichever way they ended.
C2_TotalCountsEveryCall == results.total_requests = Completed

\* C3: a make_request call that ends has added one to exactly one of
\* successful_requests and failed_requests, and nothing to the other.
C3_ExactlyOneCounter ==
    [][\A u \in UserIds :
          request_count'[u] = request_count[u] + 1 =>
              \/ /\ results'.successful_requests = results.successful_requests + 1
                 /\ results'.failed_requests = results.failed_requests
              \/ /\ results'.successful_requests = results.successful_requests
                 /\ results'.failed_requests = results.failed_requests + 1]_vars

\* C4: when the run is over, the number of latency samples and the sum of the
\* status tallies both equal successful_requests plus the number of failed
\* calls that had received an HTTP status.
C4_SamplePerHttpStatus ==
    RunOver =>
        /\ Len(results.response_times) = SumOver(results.status_codes, Statuses)
        /\ Len(results.response_times) = results.successful_requests + HttpFailures

\* C5: a status-200 response whose body cannot be parsed adds one to
\* failed_requests, leaves successful_requests, appends one latency sample and
\* adds one to status_codes[200].
C5_MalformedCountedLikeNon200 ==
    [][history'["json_failed_200"] = history["json_failed_200"] + 1 =>
          /\ results'.failed_requests = results.failed_requests + 1
          /\ results'.successful_requests = results.successful_requests
          /\ Len(results'.response_times) = Len(results.response_times) + 1
          /\ results'.status_codes[StatusOK] = results.status_codes[StatusOK] + 1]_vars

\* C6: errors holds one entry per failed call that received no HTTP status and
\* none for a call that received one: len(errors) = failed_requests minus the
\* failed calls that had received an HTTP status.
C6_ErrorsOnlyWithoutStatus ==
    Quiescent => Len(results.errors) = results.failed_requests - HttpFailures

\* C7: when every request of a run with at least one user timed out, the run
\* ends with total_requests > 0, successful_requests = 0, failed_requests =
\* total_requests and only "Timeout" entries in errors.
C7_AllTimeouts ==
    (RunOver /\ num_users >= 1 /\ Completed >= 1
        /\ history["get_timeout"] = Completed) =>
        /\ results.total_requests > 0
        /\ results.successful_requests = 0
        /\ results.failed_requests = results.total_requests
        /\ \A i \in 1..Len(results.errors) : results.errors[i] = "Timeout"

\* C8: when every user task has returned and every request was answered 200
\* with a JSON object carrying server_id, total_requests, successful_requests
\* and the sum of server_distribution all equal the number of requests made,
\* whatever the interleaving of the tasks.
C8_NoLostUpdate ==
    (RunOver /\ history["ok_with_id"] = Completed) =>
        /\ results.total_requests = Completed
        /\ results.successful_requests = Completed
        /\ SumOver(results.server_distribution, ServerIds) = Completed

\* Two users, MaxRequests requests each, all answered 200 with a server_id.
C8_Witness ==
    /\ main_pc /= "start"
    /\ num_users = MaxUsers
    /\ \A u \in UserIds : pc[u] = "done" /\ request_count[u] = MaxRequests
    /\ history["ok_with_id"] = Completed
    /\ \A s \in ServerIds : results.server_distribution[s] >= 1

\* C9: no user starts a request at or after the deadline of the coordinator,
\* start_time + duration.
C9_SharedDeadline ==
    \A u \in UserIds :
        pc[u] \in {"get", "json"} => req_start[u] < start_time + duration

\* C10: print_results is called only when every user_session task has
\* returned.
C10_ReportAfterJoin ==
    Reporting => \A u \in UserIds : (u < num_users => pc[u] = "done")

\* Reporting after two users have each made a request.
C10_Witness ==
    /\ main_pc = "reported"
    /\ num_users = MaxUsers
    /\ \A u \in UserIds : request_count[u] >= 1

\* The calls that ended as failures.
FailureOutcomes == Outcomes \ {"ok_with_id", "ok_without_id"}
Failures == SumOver(history, FailureOutcomes)

\* C11: a make_request call that ends, however it ends, returns to its
\* user_session, which goes on to sleep; it leaves the other users' tasks and
\* run_test where they were, and a user_session ends only when its end_time
\* has been reached.
C11_FailureNeverPropagates ==
    [][\A u \in UserIds :
          /\ request_count'[u] = request_count[u] + 1 =>
                /\ pc'[u] = "sleep"
                /\ \A v \in UserIds \ {u} :
                      pc'[v] = pc[v] /\ response'[v] = response[v]
                /\ main_pc' = main_pc
          /\ (pc[u] /= "done" /\ pc'[u] = "done") => ~(now < end_time'[u])]_vars

\* A user that starts its next request after its first one failed, while the
\* request of the other user is still in flight.
C11_Witness ==
    \E u, v \in UserIds :
        /\ u /= v
        /\ request_count[u] = 1 /\ pc[u] = "get" /\ now < end_time[u]
        /\ pc[v] = "json" /\ request_count[v] = 0
        /\ Failures = 1
        /\ main_pc = "gather"

\* C12: a run that ends with total_requests = 0 reports without raising.
C12_ZeroTotalReports ==
    (Reporting /\ results.total_requests = 0) => main_pc = "reported"

\* C13: with num_users <= 0 or duration <= 0 no user_session task is ever
\* created and run_test never reaches print_results.
C13_BadConfigRejected ==
    (num_users <= 0 \/ duration <= 0) =>
        /\ \A u \in UserIds : pc[u] = "none"
        /\ ~Reporting

\* C14: under fair scheduling every user_session that was created returns,
\* run_test reaches print_results and stays there, and a request in flight is
\* never cut short: it ends by returning to its user_session.
C14_RunTerminates ==
    /\ <>[](Reporting /\ \A u \in UserIds : pc[u] \in {"none", "done"})
    /\ [][Reporting => main_pc' = main_pc]_vars
    /\ [][\A u \in UserIds :
            pc[u] \in {"get", "json"} => pc'[u] \in {"get", "json", "sleep"}]_vars

\* A run that reported after a request that was answered when the end_time
\* of its user had been reached.
C14_Witness ==
    /\ main_pc = "reported"
    /\ num_users = MaxUsers
    /\ duration = 1
    /\ \E i \in DOMAIN results.response_times : results.response_times[i] = 1000
    /\ \A u \in UserIds : pc[u] = "done" /\ request_count[u] >= 1

EndpointIndex(e) == CHOOSE i \in 0..(Len(endpoints) - 1) : endpoints[i + 1] = e

C17_ErrorFrame ==
    [][/\ (\/ history'["get_timeout"] /= history["get_timeout"]
           \/ history'["body_timeout"] /= history["body_timeout"]) =>
              results' = [results EXCEPT !.failed_requests = @ + 1,
                                         !.errors = Append(@, "Timeout")]
       /\ history'["get_error"] /= history["get_error"] =>
              results' = [results EXCEPT !.failed_requests = @ + 1,
                                         !.errors = Append(@, ConnectError)]]_vars

\* A timeout and a transport error, after a response had been recorded.
C17_Witness ==
    /\ results.errors = <<"Timeout", ConnectError>>
    /\ results.failed_requests = 2
    /\ Len(results.response_times) = 1
    /\ history["get_timeout"] = 1 /\ history["get_error"] = 1

\* C18: the sum of server_distribution never exceeds successful_requests; a
\* 200 response carrying server_id adds one to the count of one id and one to
\* successful_requests, no other call changes server_distribution, and a 200
\* response without server_id adds one to successful_requests only.
C18_ServerDistribution ==
    /\ [](SumOver(results.server_distribution, ServerIds)
              <= results.successful_requests)
    /\ [][/\ history'["ok_with_id"] = history["ok_with_id"] + 1 =>
                /\ results'.successful_requests = results.successful_requests + 1
                /\ \E s \in ServerIds :
                      results'.server_distribution =
                          [results.server_distribution EXCEPT ![s] = @ + 1]
          /\ history'["ok_with_id"] = history["ok_with_id"] =>
                results'.server_distribution = results.server_distribution
          /\ history'["ok_without_id"] = history["ok_without_id"] + 1 =>
                results'.successful_requests = results.successful_requests + 1]_vars

\* Responses of every kind: 200 with and without server_id, and a non-200
\* response whose body carries server_id or not.
C18_Witness ==
    /\ history["ok_with_id"] = 1
    /\ history["ok_without_id"] = 1
    /\ history["non_200"] >= 1
    /\ results.successful_requests = 2
    /\ SumOver(results.server_distribution, ServerIds) = 1

\* v is the element at place k, counted from 0, of the ascending sort of ts.
IsOrderStatistic(v, ts, k) ==
    /\ k \in 0..(Len(ts) - 1)
    /\ \E i \in DOMAIN ts : ts[i] = v
    /\ Cardinality({i \in DOMAIN ts : ts[i] < v}) <= k
    /\ Cardinality({i \in DOMAIN ts : ts[i] <= v}) >= k + 1

\* C19: for n >= 1 samples, P50, P95 and P99 are the elements at places
\* floor(n/2), floor(n*0.95) and floor(n*0.99) of the ascending sort, all
\* places within 0..n-1; the samples 10, 20, 30, 40, 50 give P50 = 30.
C19_Percentiles ==
    main_pc = "reported" =>
        LET ts == results.response_times
            n == Len(ts)
        IN  /\ n >= 1 => summary.shown
            /\ summary.shown =>
                  /\ IsOrderStatistic(summary.p50, ts, n \div 2)
                  /\ IsOrderStatistic(summary.p95, ts, (n * 95) \div 100)
                  /\ IsOrderStatistic(summary.p99, ts, (n * 99) \div 100)
            /\ ts = <<10, 20, 30, 40, 50>> => summary.p50 = 30

\* The percentiles of five samples that were not recorded in order.
C19_Witness ==
    /\ main_pc = "reported"
    /\ results.response_times = <<50, 10, 40, 20, 30>>
    /\ summary.shown
    /\ summary.p50 = 30 /\ summary.p95 = 50 /\ summary.p99 = 50

\* C20: in every state total_requests, the number of latency samples and the
\* sum of the status tallies are equal.
C20_RecordedTogether ==
    /\ results.total_requests = Len(results.response_times)
    /\ Len(results.response_times) = SumOver(results.status_codes, Statuses)

\* Both statuses recorded and an error counted, with a request in flight.
C20_Witness ==
    /\ \E u \in UserIds : pc[u] = "json"
    /\ results.total_requests = 2
    /\ \A st \in Statuses : results.status_codes[st] = 1
    /\ Len(results.errors) = 1

====
